---- MODULE Spec2Model ----
(***************************************************************************)
(* Model of src/isekai_simulation.py: the text-driven isekai simulator.    *)
(* One run blocks on input() eight times (name, four menus, three events). *)
(* LerLinha is input() returning a line; the ...Aceito and ...Rejeitado     *)
(* actions are the code that runs from there to the next input() call (or  *)
(* to the exit).                                                           *)
(* Non-ASCII letters of the source's strings are written without accents.  *)
(***************************************************************************)
EXTENDS Integers, Sequences, FiniteSets, TLC

\* Cap of the counter of rejected lines at one prompt (the loops have none).
MaxRejeitadas == 2
\* Largest attribute value and counter value drawn by the unit specification.
MaxAtributo == 3
MaxContador == 4

VARIABLES
    pc,          \* the input() call the run is blocked on, or "fim"
    evento,      \* position in EVENTOS of the loop of simular_aventura (0: not started)
    entrada,     \* <<>>, or <<line>>: the line input() just returned, not yet handled
    locais,      \* the local variables of preparar_personagem assigned so far
    personagem,  \* <<>> before Personagem(...) is built, <<the Personagem>> after
    saida,       \* what the last handling step printed
    transcricao, \* the section headers printed so far, in order
    rejeitadas   \* lines rejected by the current (or last finished) prompt loop

vars == <<pc, evento, entrada, locais, personagem, saida, transcricao, rejeitadas>>

----------------------------------------------------------------------------
(* Data *)

Escolha(nome, atributos) == [nome |-> nome, atributos |-> atributos]

\* The element of a one-element set (binds a computed value once).
Unico(S) == CHOOSE x \in S : TRUE

\* A dict is a function; d.get(k, default) and d[k] = v.
Get(d, k, padrao) == IF k \in DOMAIN d THEN d[k] ELSE padrao

Put(d, k, v) == [x \in (DOMAIN d) \cup {k} |-> IF x = k THEN v ELSE d[x]]

AtributosIniciais == [k \in {"vigor", "mana", "sorte", "carisma"} |-> 0]

\* The order of the keys of Personagem.atributos (dict insertion order).
Chaves == <<"vigor", "mana", "sorte", "carisma">>

MUNDOS == <<
    Escolha("Reino de Aerilon", << <<"mana", 2>>, <<"carisma", 1>> >>),
    Escolha("Imperio Ferromar", << <<"vigor", 2>> >>),
    Escolha("Arquipelago de Lumen", << <<"sorte", 2>>, <<"mana", 1>> >>) >>

ORIGENS == <<
    Escolha("Filho de um Artifice", << <<"mana", 1>>, <<"vigor", 1>> >>),
    Escolha("Herdeiro de Guilda", << <<"carisma", 2>> >>),
    Escolha("Cacador Errante", << <<"vigor", 1>>, <<"sorte", 1>> >>) >>

PODERES == <<
    Escolha("Forja Estelar", << <<"vigor", 1>>, <<"mana", 2>> >>),
    Escolha("Eco do Tempo", << <<"sorte", 2>> >>),
    Escolha("Lira do Coracao", << <<"carisma", 2>>, <<"mana", 1>> >>) >>

LEGADOS == <<
    Escolha("Guardiao Celeste", << <<"carisma", 1>>, <<"vigor", 1>> >>),
    Escolha("Sabio Errante", << <<"mana", 1>>, <<"sorte", 1>> >>),
    Escolha("Desafiante do Destino", << <<"vigor", 1>>, <<"sorte", 1>> >>) >>

Evento(titulo, escolhas) == [titulo |-> titulo, escolhas |-> escolhas]

\* Mutant of EVENTOS: a misspelt outcome tag in the second event.
EventosComTagErrada == <<
    Evento("Festival da Reencarnacao", <<
        <<"gloria", "exibir sua forja estelar em um duelo amistoso", "gloria">>,
        <<"caridade", "distribuir bencaos nas feiras com a lira do coracao", "mistico">>,
        <<"humildade", "ajudar discretamente nas barracas comunitarias", "cicatriz">> >>),
    Evento("Biblioteca Serpentina", <<
        <<"estudo", "mergulhar nos manuscritos brilhantes", "mistico">>,
        <<"atalho", "seguir um espirito guia ate uma sala proibida", "gloria">>,
        <<"retirada", "recuar ao sentir uma presenca hostil", "cicatrizes">> >>),
    Evento("Provacao do Crepusculo", <<
        <<"combate", "atacar o tita de frente com coragem", "gloria">>,
        <<"estrategia", "coordenar uma retirada ordenada", "cicatriz">>,
        <<"selo", "canalizar mana para selar a criatura", "mistico">> >>) >>

\* The three events, each option as (identificador, texto in lower case, resultado).
EVENTOS == <<
    Evento("Festival da Reencarnacao", <<
        <<"gloria", "exibir sua forja estelar em um duelo amistoso", "gloria">>,
        <<"caridade", "distribuir bencaos nas feiras com a lira do coracao", "mistico">>,
        <<"humildade", "ajudar discretamente nas barracas comunitarias", "cicatriz">> >>),
    Evento("Biblioteca Serpentina", <<
        <<"estudo", "mergulhar nos manuscritos brilhantes", "mistico">>,
        <<"atalho", "seguir um espirito guia ate uma sala proibida", "gloria">>,
        <<"retirada", "recuar ao sentir uma presenca hostil", "cicatriz">> >>),
    Evento("Provacao do Crepusculo", <<
        <<"combate", "atacar o tita de frente com coragem", "gloria">>,
        <<"estrategia", "coordenar uma retirada ordenada", "cicatriz">>,
        <<"selo", "canalizar mana para selar a criatura", "mistico">> >>) >>

----------------------------------------------------------------------------
(* Text: a line is a sequence of one-character strings *)

Digitos == <<"0", "1", "2", "3", "4", "5", "6", "7", "8", "9">>

EhDigito(c) == \E d \in 1..10 : Digitos[d] = c

ValorDigito(c) == (CHOOSE d \in 1..10 : Digitos[d] = c) - 1

EhEspaco(c) == c = " "

\* str.strip(): drops the leading and the trailing whitespace.
RECURSIVE LStrip(_)
LStrip(s) == IF s # <<>> /\ EhEspaco(Head(s)) THEN LStrip(Tail(s)) ELSE s

RECURSIVE RStrip(_)
RStrip(s) ==
    IF s # <<>> /\ EhEspaco(s[Len(s)]) THEN RStrip(SubSeq(s, 1, Len(s) - 1)) ELSE s

Strip(s) == RStrip(LStrip(s))

\* The digits of an int literal: digits, single underscores between them allowed.
RECURSIVE DigitosValidos(_)
DigitosValidos(s) ==
    IF s = <<>> THEN FALSE
    ELSE IF ~EhDigito(Head(s)) THEN FALSE
    ELSE IF Len(s) = 1 THEN TRUE
    ELSE IF s[2] = "_" THEN DigitosValidos(SubSeq(s, 3, Len(s)))
    ELSE DigitosValidos(Tail(s))

RECURSIVE ValorDigitos(_, _)
ValorDigitos(s, acc) ==
    IF s = <<>> THEN acc
    ELSE IF Head(s) = "_" THEN ValorDigitos(Tail(s), acc)
    ELSE ValorDigitos(Tail(s), 10 * acc + ValorDigito(Head(s)))

\* int(text): [ok |-> FALSE] is ValueError.
IntDe(texto) ==
    LET t == Strip(texto)
        sinal == IF t # <<>> /\ Head(t) = "-" THEN -1 ELSE 1
        corpo == IF t # <<>> /\ Head(t) \in {"-", "+"} THEN Tail(t) ELSE t
    IN  IF DigitosValidos(corpo)
        THEN [ok |-> TRUE, valor |-> sinal * ValorDigitos(corpo, 0)]
        ELSE [ok |-> FALSE, valor |-> 0]

\* The lines the player types at a menu or an event.
LinhasIndice == {
    <<>>, <<"a">>, <<"-">>, <<"2", ".", "0">>, <<"1", " ", "2">>,
    <<"0">>, <<"-", "1">>, <<"4">>, <<"1", "0">>,
    <<"1">>, <<"2">>, <<"3">>, <<" ", "2">>, <<"+", "3">>, <<"0", "1">> }

\* The lines the player types at the name prompt.
LinhasNome == { <<>>, <<" ">>, <<" ", " ">>, <<"G">>, <<" ", "G", " ">> }

\* int(line) and line.strip() of each of these lines, computed once.
IntDasLinhas == [linha \in LinhasIndice |-> IntDe(linha)]

StripDasLinhas == [linha \in LinhasNome |-> Strip(linha)]

----------------------------------------------------------------------------
(* Personagem *)

NovoPersonagem(nome, mundo, origem, poder, legado) ==
    [nome |-> nome, mundo |-> mundo, origem |-> origem, poder |-> poder,
     legado |-> legado, atributos |-> AtributosIniciais,
     gloria |-> 0, cicatrizes |-> 0]

\* Mutant of AplicarItens: the delta is stored instead of added.
RECURSIVE AplicarItensSobrescreve(_, _)
AplicarItensSobrescreve(atributos, itens) ==
    IF itens = <<>> THEN atributos
    ELSE Unico({AplicarItensSobrescreve(novo, Tail(itens)) :
            novo \in {Put(atributos, itens[1][1], itens[1][2])}})

\* The inner loop of aplicar_escolhas: the items of one option, in dict order.
RECURSIVE AplicarItens(_, _)
AplicarItens(atributos, itens) ==
    IF itens = <<>> THEN atributos
    ELSE LET chave == itens[1][1]
             valor == itens[1][2]
         IN  Unico({AplicarItens(novo, Tail(itens)) :
                novo \in {Put(atributos, chave, Get(atributos, chave, 0) + valor)}})

\* The outer loop of aplicar_escolhas: the options, in the order given.
RECURSIVE AplicarLista(_, _)
AplicarLista(atributos, escolhas) ==
    IF escolhas = <<>> THEN atributos
    ELSE Unico({AplicarLista(novo, Tail(escolhas)) :
            novo \in {AplicarItens(atributos, escolhas[1].atributos)}})

AplicarEscolhas(p) ==
    [p EXCEPT !.atributos =
        AplicarLista(p.atributos, <<p.mundo, p.origem, p.poder, p.legado>>)]

Max(a, b) == IF a >= b THEN a ELSE b

Min(a, b) == IF a <= b THEN a ELSE b

\* What a print shows: its kind, its text and the numbers formatted into it.
Texto(tipo, texto, numeros) == [tipo |-> tipo, texto |-> texto, numeros |-> numeros]

\* The range of the one random.randint call of each branch of _narrativa.
Rolagens(resultado) ==
    IF resultado \in {"gloria", "cicatriz"} THEN 0..2
    ELSE IF resultado = "mistico" THEN 1..6
    ELSE {0}

\* Mutant of Narrativa: the echo is computed after mana is incremented.
NarrativaEcoDepois(resultado, p, rolagem) ==
    LET sorte == Get(p.atributos, "sorte", 0)
        mana == Get(p.atributos, "mana", 0)
        carisma == Get(p.atributos, "carisma", 0)
        vigor == Get(p.atributos, "vigor", 0)
    IN  IF resultado = "gloria"
        THEN [personagem |-> p,
              texto |-> Texto("gloria", "", <<rolagem + (Max(sorte, carisma) \div 2)>>)]
        ELSE IF resultado = "cicatriz"
        THEN [personagem |-> p,
              texto |-> Texto("cicatriz", "", <<rolagem - (Min(vigor, sorte) \div 3)>>)]
        ELSE IF resultado = "mistico"
        THEN [personagem |-> [p EXCEPT !.atributos = Put(p.atributos, "mana", mana + 1)],
              texto |-> Texto("mistico", "", <<rolagem + (mana + 1)>>)]
        ELSE [personagem |-> p, texto |-> Texto("neutro", "", <<>>)]

\* Mutant of Narrativa: the penalty of a scar is taken from vigor.
NarrativaAplicaPenalidade(resultado, p, rolagem) ==
    LET sorte == Get(p.atributos, "sorte", 0)
        mana == Get(p.atributos, "mana", 0)
        carisma == Get(p.atributos, "carisma", 0)
        vigor == Get(p.atributos, "vigor", 0)
        penalidade == rolagem - (Min(vigor, sorte) \div 3)
    IN  IF resultado = "gloria"
        THEN [personagem |-> p,
              texto |-> Texto("gloria", "", <<rolagem + (Max(sorte, carisma) \div 2)>>)]
        ELSE IF resultado = "cicatriz"
        THEN [personagem |->
                [p EXCEPT !.atributos = Put(p.atributos, "vigor", vigor - penalidade)],
              texto |-> Texto("cicatriz", "", <<penalidade>>)]
        ELSE IF resultado = "mistico"
        THEN [personagem |-> [p EXCEPT !.atributos = Put(p.atributos, "mana", mana + 1)],
              texto |-> Texto("mistico", "", <<rolagem + mana>>)]
        ELSE [personagem |-> p, texto |-> Texto("neutro", "", <<>>)]

\* Evento._narrativa: the narration and the Personagem as it leaves it.
Narrativa(resultado, p, rolagem) ==
    LET sorte == Get(p.atributos, "sorte", 0)
        mana == Get(p.atributos, "mana", 0)
        carisma == Get(p.atributos, "carisma", 0)
        vigor == Get(p.atributos, "vigor", 0)
    IN  IF resultado = "gloria"
        THEN [personagem |-> p,
              texto |-> Texto("gloria", "", <<rolagem + (Max(sorte, carisma) \div 2)>>)]
        ELSE IF resultado = "cicatriz"
        THEN [personagem |-> p,
              texto |-> Texto("cicatriz", "", <<rolagem - (Min(vigor, sorte) \div 3)>>)]
        ELSE IF resultado = "mistico"
        THEN [personagem |->
                [p EXCEPT !.atributos =
                    Put(p.atributos, "mana", Get(p.atributos, "mana", 0) + 1)],
              texto |-> Texto("mistico", "", <<rolagem + mana>>)]
        ELSE [personagem |-> p, texto |-> Texto("neutro", "", <<>>)]

\* Evento.resolver, given the index solicitar_indice returned (0-based).
EventoResolver(ev, p, indice, rolagem) ==
    LET opcao == ev.escolhas[indice + 1]
        resultado == opcao[3]
        n == Narrativa(resultado, p, rolagem)
    IN  [resultado |-> resultado,
         descricao |-> [n.texto EXCEPT !.texto = opcao[2]],
         personagem |-> n.personagem]

\* Mutant of ResolverEvento: every result that is not gloria counts as a scar.
ResolverEventoSenao(p, ev, indice, rolagem) ==
    LET r == EventoResolver(ev, p, indice, rolagem)
        q == r.personagem
    IN  [personagem |->
            IF r.resultado = "gloria" THEN [q EXCEPT !.gloria = @ + 1]
            ELSE [q EXCEPT !.cicatrizes = @ + 1],
         descricao |-> r.descricao]

\* Personagem.resolver_evento
ResolverEvento(p, ev, indice, rolagem) ==
    LET r == EventoResolver(ev, p, indice, rolagem)
        q == r.personagem
    IN  [personagem |->
            IF r.resultado = "gloria" THEN [q EXCEPT !.gloria = @ + 1]
            ELSE IF r.resultado = "cicatriz" THEN [q EXCEPT !.cicatrizes = @ + 1]
            ELSE q,
         descricao |-> r.descricao]

\* Mutant of Destino: the legend tier needs a difference above 3.
DestinoEstrito(diferenca) ==
    IF diferenca > 3 THEN "lenda"
    ELSE IF diferenca >= 1 THEN "memoria"
    ELSE IF diferenca = 0 THEN "equilibrio"
    ELSE "resistencia"

\* The tier Personagem.epilogo picks.
Destino(diferenca) ==
    IF diferenca >= 3 THEN "lenda"
    ELSE IF diferenca >= 1 THEN "memoria"
    ELSE IF diferenca = 0 THEN "equilibrio"
    ELSE "resistencia"

\* Personagem.epilogo: the tier, the two counters and the attributes in dict order.
Epilogo(p) ==
    Texto("epilogo", Destino(p.gloria - p.cicatrizes),
          <<p.gloria, p.cicatrizes>> \o [i \in 1..Len(Chaves) |-> p.atributos[Chaves[i]]])

----------------------------------------------------------------------------
(* Prompts *)

\* The range test of solicitar_indice on escolha = int(line) - 1.
NoIntervalo(escolha, total) == 0 <= escolha /\ escolha < total

\* Mutant of SolicitarIndice: a number out of range is moved to the nearest option.
SolicitarIndiceSatura(linha, total) ==
    LET r == IntDasLinhas[linha]
        escolha == r.valor - 1
    IN  IF ~r.ok
        THEN [retorna |-> FALSE, valor |-> 0,
              mensagem |-> "Digite o numero da opcao desejada."]
        ELSE [retorna |-> TRUE, valor |-> Max(0, Min(escolha, total - 1)),
              mensagem |-> ""]

\* Mutant of SolicitarIndice: the 1-based number is not decremented.
SolicitarIndiceSemDecremento(linha, total) ==
    LET r == IntDasLinhas[linha]
        escolha == r.valor
    IN  IF ~r.ok
        THEN [retorna |-> FALSE, valor |-> 0,
              mensagem |-> "Digite o numero da opcao desejada."]
        ELSE IF NoIntervalo(escolha, total)
        THEN [retorna |-> TRUE, valor |-> escolha, mensagem |-> ""]
        ELSE [retorna |-> FALSE, valor |-> 0,
              mensagem |-> "Opcao invalida, tente novamente."]

\* One pass of the loop of solicitar_indice on a line: return or re-ask.
SolicitarIndice(linha, total) ==
    LET r == IntDasLinhas[linha]
        escolha == r.valor - 1
    IN  IF ~r.ok
        THEN [retorna |-> FALSE, valor |-> 0,
              mensagem |-> "Digite o numero da opcao desejada."]
        ELSE IF NoIntervalo(escolha, total)
        THEN [retorna |-> TRUE, valor |-> escolha, mensagem |-> ""]
        ELSE [retorna |-> FALSE, valor |-> 0,
              mensagem |-> "Opcao invalida, tente novamente."]

\* One pass of the loop of solicitar_nome on a line.
SolicitarNome(linha) ==
    LET nome == StripDasLinhas[linha]
    IN  IF nome # <<>>
        THEN [retorna |-> TRUE, valor |-> nome, mensagem |-> ""]
        ELSE [retorna |-> FALSE, valor |-> <<>>,
              mensagem |-> "Um heroi precisa de um nome, nem que seja emprestado!"]

\* Mutant of Menus: the power is asked before the origin.
MenusTrocados == <<
    [local |-> "mundo", titulo |-> "Escolha seu novo mundo", opcoes |-> MUNDOS],
    [local |-> "poder", titulo |-> "Qual bencao deseja receber?", opcoes |-> PODERES],
    [local |-> "origem", titulo |-> "Qual sera sua nova origem?", opcoes |-> ORIGENS],
    [local |-> "legado", titulo |-> "Qual legado pretende construir?", opcoes |-> LEGADOS] >>

\* The menus of preparar_personagem: the local each assigns, its title, its list.
Menus == <<
    [local |-> "mundo", titulo |-> "Escolha seu novo mundo", opcoes |-> MUNDOS],
    [local |-> "origem", titulo |-> "Qual sera sua nova origem?", opcoes |-> ORIGENS],
    [local |-> "poder", titulo |-> "Qual bencao deseja receber?", opcoes |-> PODERES],
    [local |-> "legado", titulo |-> "Qual legado pretende construir?", opcoes |-> LEGADOS] >>

PosicaoMenu(nome) == CHOOSE i \in 1..Len(Menus) : Menus[i].local = nome

EhMenu(nome) == \E i \in 1..Len(Menus) : Menus[i].local = nome

PerguntaNome == "Como voce se chama no mundo original?"

Despedida == "Obrigado por compartilhar sua jornada com Gem. Ate a proxima reencarnacao!"

\* The headers among what a step printed, for the transcript.
RECURSIVE Cabecalhos(_)
Cabecalhos(textos) ==
    IF textos = <<>> THEN <<>>
    ELSE LET t == Head(textos)
         IN  (IF t.tipo \in {"menu", "evento", "pergunta", "despedida"} THEN <<t.texto>>
              ELSE IF t.tipo = "epilogo" THEN <<"epilogo">>
              ELSE <<>>) \o Cabecalhos(Tail(textos))

Rejeicao(mensagem) == Texto("rejeicao", mensagem, <<>>)

UltimaFoiRejeicao == saida # <<>> /\ saida[Len(saida)].tipo = "rejeicao"

----------------------------------------------------------------------------
(* The run *)

\* The run blocked on the first input(): introducao() printed, nothing read.
Init ==
    /\ pc = "nome"
    /\ evento = 0
    /\ entrada = <<>>
    /\ locais = <<>>
    /\ personagem = <<>>
    /\ saida = <<Texto("introducao", "BEM-VINDO AO SIMULADOR DE ISEKAI DE GEM", <<>>),
                 Texto("pergunta", PerguntaNome, <<>>)>>
    /\ transcricao = <<PerguntaNome>>
    /\ rejeitadas = 0

Linhas == IF pc = "nome" THEN LinhasNome ELSE LinhasIndice

\* input() returns the line the player typed.
Ler(linha) ==
    /\ pc # "fim"
    /\ entrada = <<>>
    /\ entrada' = <<linha>>
    /\ rejeitadas' = IF UltimaFoiRejeicao THEN rejeitadas ELSE 0
    /\ UNCHANGED <<pc, evento, locais, personagem, saida, transcricao>>

LerLinha == \E linha \in Linhas : Ler(linha)

\* Mutant of Rejeitar: the prompt gives up after MaxRejeitadas rejected lines.
RejeitarComLimite(mensagem) ==
    /\ entrada' = <<>>
    /\ saida' = <<Rejeicao(mensagem)>>
    /\ rejeitadas' = Min(rejeitadas + 1, MaxRejeitadas)
    /\ pc' = IF rejeitadas >= MaxRejeitadas THEN "fim" ELSE pc
    /\ UNCHANGED <<evento, locais, personagem, transcricao>>

\* What a rejected line leaves: the message printed, the loop back at input().
Rejeitar(mensagem) ==
    /\ entrada' = <<>>
    /\ saida' = <<Rejeicao(mensagem)>>
    /\ rejeitadas' = Min(rejeitadas + 1, MaxRejeitadas)
    /\ UNCHANGED <<pc, evento, locais, personagem, transcricao>>

\* What an accepted line leaves besides the program's own state.
Aceitar(textos) ==
    /\ entrada' = <<>>
    /\ \E impressos \in {textos} :
        /\ saida' = impressos
        /\ transcricao' = transcricao \o Cabecalhos(impressos)
    /\ UNCHANGED rejeitadas

NomeRejeitado ==
    /\ pc = "nome" /\ entrada # <<>>
    /\ \E r \in {SolicitarNome(entrada[1])} :
        ~r.retorna /\ Rejeitar(r.mensagem)

NomeAceito ==
    /\ pc = "nome" /\ entrada # <<>>
    /\ \E r \in {SolicitarNome(entrada[1])} :
        /\ r.retorna
        /\ locais' = ("nome" :> r.valor)
        /\ pc' = Menus[1].local
        /\ Aceitar(<<Texto("menu", Menus[1].titulo, <<>>)>>)
        /\ UNCHANGED <<evento, personagem>>

\* The number of options of the prompt the run is blocked on.
Total == IF pc = "evento" THEN Len(EVENTOS[evento].escolhas)
         ELSE Len(Menus[PosicaoMenu(pc)].opcoes)

IndiceRejeitado ==
    /\ (EhMenu(pc) \/ pc = "evento") /\ entrada # <<>>
    /\ \E r \in {SolicitarIndice(entrada[1], Total)} :
        ~r.retorna /\ Rejeitar(r.mensagem)

\* apresentar_opcoes returns opcoes[indice]; the next menu is printed.
MenuAceito ==
    /\ EhMenu(pc) /\ PosicaoMenu(pc) < Len(Menus) /\ entrada # <<>>
    /\ \E m \in {PosicaoMenu(pc)} :
       \E r \in {SolicitarIndice(entrada[1], Len(Menus[m].opcoes))} :
        /\ r.retorna
        /\ locais' = locais @@ (Menus[m].local :> Menus[m].opcoes[r.valor + 1])
        /\ pc' = Menus[m + 1].local
        /\ Aceitar(<<Texto("menu", Menus[m + 1].titulo, <<>>)>>)
        /\ UNCHANGED <<evento, personagem>>

\* The last menu: the Personagem is built, aplicar_escolhas runs, preparar_personagem
\* returns and simular_aventura presents the first event.
LegadoAceito ==
    /\ EhMenu(pc) /\ PosicaoMenu(pc) = Len(Menus) /\ entrada # <<>>
    /\ \E m \in {PosicaoMenu(pc)} :
       \E r \in {SolicitarIndice(entrada[1], Len(Menus[m].opcoes))} :
        /\ r.retorna
        /\ \E novo \in {NovoPersonagem(locais["nome"], locais["mundo"],
                            locais["origem"], locais["poder"],
                            Menus[m].opcoes[r.valor + 1])} :
            personagem' = <<AplicarEscolhas(novo)>>
        /\ locais' = <<>>
        /\ pc' = "evento"
        /\ evento' = 1
        /\ Aceitar(<<Texto("evento", EVENTOS[1].titulo, <<>>)>>)

\* An event is resolved and its narration printed; then the next event is presented,
\* or after the last one the epilogue and the farewell are printed and the run ends.
EventoAceito ==
    /\ pc = "evento" /\ entrada # <<>>
    /\ \E ev \in {EVENTOS[evento]} :
       \E r \in {SolicitarIndice(entrada[1], Len(ev.escolhas))} :
        /\ r.retorna
        /\ \E rolagem \in Rolagens(ev.escolhas[r.valor + 1][3]) :
           \E res \in {ResolverEvento(personagem[1], ev, r.valor, rolagem)} :
            /\ personagem' = <<res.personagem>>
            /\ IF evento < Len(EVENTOS)
               THEN /\ evento' = evento + 1
                    /\ pc' = "evento"
                    /\ Aceitar(<<res.descricao,
                                 Texto("evento", EVENTOS[evento + 1].titulo, <<>>)>>)
               ELSE /\ evento' = evento
                    /\ pc' = "fim"
                    /\ Aceitar(<<res.descricao, Epilogo(res.personagem),
                                 Texto("despedida", Despedida, <<>>)>>)
        /\ UNCHANGED locais

Next ==
    \/ LerLinha
    \/ NomeRejeitado
    \/ NomeAceito
    \/ IndiceRejeitado
    \/ MenuAceito
    \/ LegadoAceito
    \/ EventoAceito

Spec == Init /\ [][Next]_vars

\* The player eventually types a line the prompt accepts.
LerValida ==
    \E linha \in Linhas :
        /\ pc # "fim"
        /\ IF pc = "nome" THEN SolicitarNome(linha).retorna
           ELSE SolicitarIndice(linha, Total).retorna
        /\ Ler(linha)

Tratar ==
    \/ NomeRejeitado
    \/ NomeAceito
    \/ IndiceRejeitado
    \/ MenuAceito
    \/ LegadoAceito
    \/ EventoAceito

\* The run with a player who keeps typing and eventually types a valid line.
SpecJusta == Spec /\ WF_vars(Tratar) /\ SF_vars(LerValida)

----------------------------------------------------------------------------
(* resolver_evento and epilogo called on an arbitrary Personagem *)

\* An event with one option per outcome tag, one of them a tag _narrativa
\* has no branch for.
EventoDeTeste ==
    Evento("teste", <<
        <<"a", "opcao a", "gloria">>,
        <<"b", "opcao b", "cicatriz">>,
        <<"c", "opcao c", "mistico">>,
        <<"d", "opcao d", "neutro">> >>)

InitUnidade ==
    /\ pc = "unidade"
    /\ evento = 0
    /\ entrada \in {<<>>} \cup
            {<<linha>> : linha \in {<<"1">>, <<"2">>, <<"3">>, <<"4">>}}
    /\ locais = <<>>
    /\ \E atributos \in [DOMAIN AtributosIniciais -> 0..MaxAtributo],
          gloria \in 0..MaxContador, cicatrizes \in 0..MaxContador :
            personagem = <<[NovoPersonagem(<<"G">>, MUNDOS[1], ORIGENS[1],
                                           PODERES[1], LEGADOS[1])
                            EXCEPT !.atributos = atributos, !.gloria = gloria,
                                   !.cicatrizes = cicatrizes]>>
    /\ saida = <<>>
    /\ transcricao = <<>>
    /\ rejeitadas = 0

UnidadeResolver ==
    /\ pc = "unidade" /\ entrada # <<>>
    /\ \E ev \in {EventoDeTeste} :
       \E r \in {SolicitarIndice(entrada[1], Len(ev.escolhas))} :
        /\ r.retorna
        /\ \E rolagem \in Rolagens(ev.escolhas[r.valor + 1][3]) :
           \E res \in {ResolverEvento(personagem[1], ev, r.valor, rolagem)} :
            /\ personagem' = <<res.personagem>>
            /\ saida' = <<res.descricao>>
    /\ pc' = "resolvido"
    /\ entrada' = <<>>
    /\ UNCHANGED <<evento, locais, transcricao, rejeitadas>>

UnidadeEpilogo ==
    /\ pc = "unidade" /\ entrada = <<>>
    /\ saida' = <<Epilogo(personagem[1])>>
    /\ pc' = "epilogado"
    /\ UNCHANGED <<evento, entrada, locais, personagem, transcricao, rejeitadas>>

NextUnidade ==
    \/ UnidadeResolver
    \/ UnidadeEpilogo

SpecUnidade == InitUnidade /\ [][NextUnidade]_vars

----------------------------------------------------------------------------
(* Properties *)

P == personagem[1]

Criado == personagem # <<>>

\* The line a player types for the 1-based position i.
Numeral(i) == <<ToString(i)>>

\* The catalog a menu selects from, by the local the selection is stored in.
Catalogo(nome) ==
    CASE nome = "mundo" -> MUNDOS
      [] nome = "origem" -> ORIGENS
      [] nome = "poder" -> PODERES
      [] nome = "legado" -> LEGADOS
      [] OTHER -> <<>>

NoPromptDeIndice == pc \in {"mundo", "origem", "poder", "legado", "evento"}

OpcoesDoPrompt == IF pc = "evento" THEN 3 ELSE Len(Catalogo(pc))

\* A line that is not a number, or is a number outside 1..total.
LinhaInvalida(linha, total) == ~IntDe(linha).ok \/ IntDe(linha).valor \notin 1..total

\* C1: a non-numeric or out-of-range line at a prompt of solicitar_indice only
\* prints a corrective message and leaves the run blocked on the same prompt:
\* the phase, the selections made and the character are unchanged.
C1_RejeicaoNaoAvanca ==
    [][(NoPromptDeIndice /\ entrada # <<>> /\ LinhaInvalida(entrada[1], OpcoesDoPrompt))
        => /\ pc' = pc /\ evento' = evento
           /\ locais' = locais
           /\ personagem' = personagem
           /\ transcricao' = transcricao
           /\ entrada' = <<>>
           /\ Len(saida') = 1 /\ saida'[1].tipo = "rejeicao"]_vars

\* The second event has re-asked MaxRejeitadas times, the last time for a number
\* out of range, and is still the pending prompt.
C1_Witness ==
    /\ pc = "evento" /\ evento = 2 /\ entrada = <<>>
    /\ rejeitadas = MaxRejeitadas
    /\ saida = <<Rejeicao("Opcao invalida, tente novamente.")>>

\* C7: the line i (1 <= i <= option_count) selects the option at position i-1
\* (0-based) of the pending menu, and at an event dispatches that option's outcome
\* tag, whatever was rejected before at the same prompt.
C7_SelecaoPorIndice ==
    [][\A i \in 1..OpcoesDoPrompt :
        (NoPromptDeIndice /\ entrada = <<Numeral(i)>>) =>
            /\ pc \in {"mundo", "origem", "poder"} =>
                    /\ pc \in DOMAIN locais'
                    /\ locais'[pc] = Catalogo(pc)[i]
            /\ pc = "legado" =>
                    /\ personagem' # <<>>
                    /\ personagem'[1].legado = LEGADOS[i]
                    /\ personagem'[1].mundo = locais["mundo"]
                    /\ personagem'[1].origem = locais["origem"]
                    /\ personagem'[1].poder = locais["poder"]
            /\ pc = "evento" =>
                    /\ saida'[1].texto = EVENTOS[evento].escolhas[i][2]
                    /\ saida'[1].tipo = EVENTOS[evento].escolhas[i][3]]_vars

\* The third world was selected by a line typed after MaxRejeitadas rejected ones.
C7_Witness ==
    /\ pc = "origem" /\ entrada = <<>> /\ ~UltimaFoiRejeicao
    /\ rejeitadas = MaxRejeitadas
    /\ locais["mundo"] = MUNDOS[3]

\* The phases of a run, in order, as the headers each prints.
OrdemFixa == <<
    "Como voce se chama no mundo original?",
    "Escolha seu novo mundo", "Qual sera sua nova origem?",
    "Qual bencao deseja receber?", "Qual legado pretende construir?",
    "Festival da Reencarnacao", "Biblioteca Serpentina", "Provacao do Crepusculo",
    "epilogo",
    "Obrigado por compartilhar sua jornada com Gem. Ate a proxima reencarnacao!" >>

\* How many headers are printed once the run is blocked on the prompt of pc.
FasesIniciadas ==
    CASE pc = "nome" -> 1
      [] pc = "mundo" -> 2
      [] pc = "origem" -> 3
      [] pc = "poder" -> 4
      [] pc = "legado" -> 5
      [] pc = "evento" -> 5 + evento
      [] pc = "fim" -> 10

\* The delta of key k in one option, 0 where the option has none.
Delta(escolha, k) ==
    LET itens == escolha.atributos
    IN  IF \E j \in 1..Len(itens) : itens[j][1] = k
        THEN itens[CHOOSE j \in 1..Len(itens) : itens[j][1] = k][2]
        ELSE 0

\* The sum of the deltas of key k over the four options of a Personagem.
SomaDelta(p, k) ==
    Delta(p.mundo, k) + Delta(p.origem, k) + Delta(p.poder, k) + Delta(p.legado, k)

\* The events resolved so far.
Resolvidos == IF pc = "fim" THEN 3 ELSE IF pc = "evento" THEN evento - 1 ELSE 0

EpilogoImpresso == \E j \in 1..Len(saida) : saida[j].tipo = "epilogo"

\* C2: the headers printed are always a prefix of the fixed order (name, world,
\* origin, power, legacy, Festival, Biblioteca, Provacao, epilogue, farewell), one per
\* phase entered; the character exists with its four selections applied exactly
\* when an event is pending or the run is over; the epilogue is printed only at
\* the end, after the three events.
C2_OrdemDasFases ==
    /\ Len(transcricao) = FasesIniciadas
    /\ transcricao = SubSeq(OrdemFixa, 1, Len(transcricao))
    /\ Criado <=> pc \in {"evento", "fim"}
    /\ pc \in {"mundo", "origem", "poder", "legado"} =>
            DOMAIN locais = {"nome"} \cup
                {SubSeq(<<"mundo", "origem", "poder", "legado">>, 1, FasesIniciadas - 2)[j] :
                    j \in 1..(FasesIniciadas - 2)}
    /\ Criado =>
            /\ P.mundo \in {MUNDOS[j] : j \in 1..3}
            /\ P.origem \in {ORIGENS[j] : j \in 1..3}
            /\ P.poder \in {PODERES[j] : j \in 1..3}
            /\ P.legado \in {LEGADOS[j] : j \in 1..3}
            /\ \A k \in {"vigor", "sorte", "carisma"} : P.atributos[k] = SomaDelta(P, k)
            /\ P.atributos["mana"] >= SomaDelta(P, "mana")
    /\ EpilogoImpresso => pc = "fim" /\ evento = 3
    /\ pc = "fim" => transcricao = OrdemFixa /\ EpilogoImpresso

\* The run is over with all ten headers printed.
C2_Witness ==
    /\ pc = "fim" /\ Len(transcricao) = 10
    /\ saida[2].tipo = "epilogo" /\ saida[3].tipo = "despedida"

\* The outcome tag of the option a pending line i selects at the pending event.
EventoPendente == IF pc = "unidade" THEN EventoDeTeste ELSE EVENTOS[evento]

TagPendente(i) == EventoPendente.escolhas[i][3]

\* The line i is pending at an event that has an option i.
ResolvendoEvento(i) ==
    /\ pc \in {"evento", "unidade"}
    /\ entrada = <<Numeral(i)>>
    /\ i <= Len(EventoPendente.escolhas)

\* C3: resolving a glory option adds exactly 1 to gloria and a scar option exactly 1
\* to cicatrizes, with the other counter and the four attributes unchanged whatever
\* the roll (the penalty is only reported); an option whose tag is neither of these
\* nor mystic changes nothing in the character.
C3_EfeitoDoResultado ==
    [][\A i \in 1..4 :
        ResolvendoEvento(i) =>
            /\ TagPendente(i) = "gloria" =>
                    personagem'[1] = [P EXCEPT !.gloria = P.gloria + 1]
            /\ TagPendente(i) = "cicatriz" =>
                    personagem'[1] = [P EXCEPT !.cicatrizes = P.cicatrizes + 1]
            /\ TagPendente(i) \notin {"gloria", "cicatriz", "mistico"} =>
                    personagem' = personagem]_vars

\* A scar was resolved whose reported penalty is negative.
C3_Witness ==
    /\ pc = "resolvido"
    /\ saida[1].tipo = "cicatriz" /\ saida[1].numeros[1] < 0
    /\ P.cicatrizes = 1 /\ P.gloria = MaxContador
    /\ P.atributos["vigor"] = MaxAtributo /\ P.atributos["sorte"] = MaxAtributo

\* C4: resolving a mystic option adds exactly 1 to mana and leaves gloria, cicatrizes,
\* vigor, sorte and carisma unchanged; the echo reported is a roll in 1..6 plus the
\* mana from before the increment.
C4_Mistico ==
    [][\A i \in 1..4 :
        (ResolvendoEvento(i) /\ TagPendente(i) = "mistico") =>
            /\ personagem'[1] =
                    [P EXCEPT !.atributos["mana"] = P.atributos["mana"] + 1]
            /\ saida'[1].tipo = "mistico"
            /\ saida'[1].numeros[1] - P.atributos["mana"] \in 1..6]_vars

\* The third event was resolved by its mystic option with the roll 6, the mana
\* having already grown at the two events before.
C4_Witness ==
    /\ pc = "fim" /\ saida[1].tipo = "mistico"
    /\ P.atributos["mana"] = SomaDelta(P, "mana") + 3
    /\ saida[1].numeros[1] = (P.atributos["mana"] - 1) + 6

\* The tier of the spec for a difference gloria - cicatrizes.
Tier(diferenca) ==
    CASE diferenca >= 3 -> "lenda"
      [] diferenca \in 1..2 -> "memoria"
      [] diferenca = 0 -> "equilibrio"
      [] diferenca < 0 -> "resistencia"

\* C5: epilogo picks the tier of gloria - cicatrizes (legend from 3 up, fond memory
\* for 1 and 2, balance for 0, resilience below 0; so legend for 4 and 1, balance
\* for 2 and 2) and changes nothing in the character.
C5_Epilogo ==
    [][(pc = "unidade" /\ pc' = "epilogado") =>
            /\ saida'[1].tipo = "epilogo"
            /\ saida'[1].texto = Tier(P.gloria - P.cicatrizes)
            /\ (P.gloria = 4 /\ P.cicatrizes = 1) => saida'[1].texto = "lenda"
            /\ (P.gloria = P.cicatrizes) => saida'[1].texto = "equilibrio"
            /\ saida'[1].numeros[1] = P.gloria /\ saida'[1].numeros[2] = P.cicatrizes
            /\ personagem' = personagem]_vars

\* The epilogue of a character with gloria 4 and cicatrizes 1 was computed.
C5_Witness ==
    /\ pc = "epilogado"
    /\ P.gloria = 4 /\ P.cicatrizes = 1
    /\ saida[1].texto = "lenda"

\* The four options of a Personagem, in each of the 24 orders.
Ordens(p) ==
    LET quatro == <<p.mundo, p.origem, p.poder, p.legado>>
    IN  {[j \in 1..4 |-> quatro[f[j]]] : f \in Permutations(1..4)}

\* C6: right after aplicar_escolhas each attribute is the sum of its deltas over the
\* four selected options (0 where an option has none), and folding the four options
\* in any order gives the same attributes.
C6_SomaDosDeltas ==
    (pc = "evento" /\ evento = 1) =>
        /\ DOMAIN P.atributos = {"vigor", "mana", "sorte", "carisma"}
        /\ \A k \in DOMAIN P.atributos : P.atributos[k] = SomaDelta(P, k)
        /\ \A ordem \in Ordens(P) : AplicarLista(AtributosIniciais, ordem) = P.atributos

\* Ferromar, Cacador Errante, Eco do Tempo and Desafiante do Destino were applied.
C6_Witness ==
    /\ pc = "evento" /\ evento = 1
    /\ P.mundo = MUNDOS[2] /\ P.origem = ORIGENS[3]
    /\ P.poder = PODERES[2] /\ P.legado = LEGADOS[3]
    /\ P.atributos = [vigor |-> 4, mana |-> 0, sorte |-> 4, carisma |-> 0]

\* C8: the four stored attributes and the two counters are never negative.
C8_NaoNegativos ==
    Criado =>
        /\ \A k \in DOMAIN P.atributos : P.atributos[k] >= 0
        /\ P.gloria >= 0
        /\ P.cicatrizes >= 0

\* A negative penalty was reported for a scar (vigor and sorte are both 4).
C8_Witness ==
    /\ pc = "evento" /\ evento = 2
    /\ saida[1].tipo = "cicatriz" /\ saida[1].numeros[1] < 0
    /\ P.cicatrizes = 1

\* C9: with a player who eventually types a valid line at each prompt, whatever
\* was rejected before, the run ends with every header up to the epilogue and the
\* farewell printed.
C9_Termina == <>(pc = "fim" /\ transcricao = OrdemFixa /\ EpilogoImpresso)

\* The last event was answered after MaxRejeitadas rejected lines and the run ended.
C9_Witness ==
    /\ pc = "fim" /\ rejeitadas = MaxRejeitadas
    /\ EpilogoImpresso /\ saida[Len(saida)].tipo = "despedida"

\* C10: after k events gloria + cicatrizes + (mana - mana at creation) = k; so at the
\* end gloria + cicatrizes <= 3 and gloria - cicatrizes is in -3..3, the legend tier
\* needs gloria = 3, and neither gloria 4 with cicatrizes 1 nor gloria 2 with
\* cicatrizes 2 is ever reached.
C10_UmResultadoPorEvento ==
    Criado =>
        /\ P.gloria + P.cicatrizes + (P.atributos["mana"] - SomaDelta(P, "mana"))
                = Resolvidos
        /\ P.gloria + P.cicatrizes <= 3
        /\ P.gloria - P.cicatrizes \in -3..3
        /\ ~(P.gloria = 4 /\ P.cicatrizes = 1)
        /\ ~(P.gloria = 2 /\ P.cicatrizes = 2)
        /\ \A j \in 1..Len(saida) :
                (saida[j].tipo = "epilogo" /\ saida[j].texto = "lenda") => P.gloria = 3

\* The run ended in the legend tier.
C10_Witness ==
    /\ pc = "fim" /\ P.gloria = 3 /\ P.cicatrizes = 0
    /\ saida[2].tipo = "epilogo" /\ saida[2].texto = "lenda"

====
